---------------------------- MODULE Spec2Model ----------------------------
(***************************************************************************)
(* FastAPI performance-monitoring service (app/main.py, app/crud.py,       *)
(* app/models.py, app/schemas.py, app/database.py).                        *)
(*                                                                         *)
(* Two layers are modelled.                                                *)
(*                                                                         *)
(*  - The HTTP layer: metrics_middleware around the route handlers         *)
(*    create_data, read_data, update_data, delete_data, metrics and        *)
(*    health_check, the user_data table behind crud.py and the Prometheus  *)
(*    registry.  A request is three steps: the middleware up to            *)
(*    `await call_next`, the handler (one step, with every statement it    *)
(*    executes and every hook those statements fire), and the middleware   *)
(*    after call_next returned.  An exception or a cancellation leaves     *)
(*    metrics_middleware at the await: the function has no try/finally.    *)
(*                                                                         *)
(*  - The statement layer: before_cursor_execute / after_cursor_execute    *)
(*    as SQLAlchemy fires them around every cursor execution of every      *)
(*    Engine, with several executions in flight on different threads.      *)
(*                                                                         *)
(* Time is time.time() in units of 5 ms.  Texts (SQL statements) are       *)
(* sequences of one-character strings, so that strip/split/lower are       *)
(* computed and not assumed.                                               *)
(***************************************************************************)
EXTENDS Integers, Sequences, FiniteSets, TLC

VARIABLES
    now,                  \* time.time()
    IN_PROGRESS,          \* Gauge inprogress_requests
    REQUEST_COUNT,        \* Counter http_requests_total: labels -> value
    REQUEST_LATENCY,      \* Histogram http_request_duration_seconds: labels -> child
    DB_QUERIES_TOTAL,     \* Counter db_queries_total: operation -> value
    DB_QUERY_DURATION,    \* Histogram db_query_duration_seconds: operation -> child
    DB_POOL_CHECKED_OUT,  \* Gauge db_pool_checked_out_connections
    DB_POOL_IDLE,         \* Gauge db_pool_idle_connections
    DB_POOL_WAITERS,      \* Gauge db_pool_waiters
    pool,                 \* engine.pool: its class and its occupancy
    database,             \* "reachable" | "unreachable"
    user_data,            \* the user_data table: a set of rows
    id_seq,               \* the last value of the table's id sequence
    req,                  \* the request tasks inside metrics_middleware
    ctx,                  \* the execution contexts of the statements in flight
    h                     \* history: what the claims are stated about

vars == <<now, IN_PROGRESS, REQUEST_COUNT, REQUEST_LATENCY, DB_QUERIES_TOTAL,
          DB_QUERY_DURATION, DB_POOL_CHECKED_OUT, DB_POOL_IDLE, DB_POOL_WAITERS,
          pool, database, user_data, id_seq, req, ctx, h>>

-----------------------------------------------------------------------------
(* Bounds of the model.                                                    *)

NumTasks == 2         \* request tasks that can be in flight together
MaxRequests == 2      \* requests per behaviour, concurrent specifications
MaxCrudRequests == 3  \* requests per behaviour, one request at a time
NumContexts == 2      \* statement executions that can be in flight together
MaxStatements == 2    \* statement executions per behaviour (statement layer)
MaxTicks == 1         \* clock ticks per behaviour
TickStep == 20        \* one tick, in units of 5 ms (100 ms)

Tasks == 1..NumTasks
Contexts == 1..NumContexts

-----------------------------------------------------------------------------
(* Text: str.strip, str.split, str.lower on sequences of characters.       *)

Whitespace == {" ", "\t", "\n", "\r"}

UpperCase == <<"A","B","C","D","E","F","G","H","I","J","K","L","M",
               "N","O","P","Q","R","S","T","U","V","W","X","Y","Z">>
LowerCase == <<"a","b","c","d","e","f","g","h","i","j","k","l","m",
               "n","o","p","q","r","s","t","u","v","w","x","y","z">>

LowerChar(c) ==
    IF \E i \in 1..Len(UpperCase) : UpperCase[i] = c
    THEN LowerCase[CHOOSE i \in 1..Len(UpperCase) : UpperCase[i] = c]
    ELSE c

lower(s) == [i \in 1..Len(s) |-> LowerChar(s[i])]

Reverse(s) == [i \in 1..Len(s) |-> s[Len(s) + 1 - i]]

RECURSIVE lstrip(_)
lstrip(s) ==
    IF s = <<>> THEN s
    ELSE IF Head(s) \in Whitespace THEN lstrip(Tail(s)) ELSE s

strip(s) == Reverse(lstrip(Reverse(lstrip(s))))

\* The longest prefix of s without whitespace.
RECURSIVE FirstWord(_)
FirstWord(s) ==
    IF s = <<>> \/ Head(s) \in Whitespace THEN <<>>
    ELSE <<Head(s)>> \o FirstWord(Tail(s))

\* str.split() with no separator: the words between runs of whitespace.
RECURSIVE split(_)
split(s) ==
    LET t == lstrip(s)
        w == FirstWord(t)
    IN  IF t = <<>> THEN <<>>
        ELSE <<w>> \o split(SubSeq(t, Len(w) + 1, Len(t)))

-----------------------------------------------------------------------------
(* prometheus_client: Counter, Histogram and Gauge children.  A labelled   *)
(* metric is a function from the label values seen so far to the child;    *)
(* .labels(...) creates the child on first use.                            *)

NoSeries == <<>>

\* A variant whose increment starts from the value the child was created
\* with instead of its current value.
IncFromCreation(counter, l) == (l :> 1) @@ counter

\* Counter.labels(l).inc()
Inc(counter, l) ==
    IF l \in DOMAIN counter
    THEN [counter EXCEPT ![l] = @ + 1]
    ELSE counter @@ (l :> 1)

Value(counter, l) == IF l \in DOMAIN counter THEN counter[l] ELSE 0

\* A histogram child: the running sum and one counter per bucket, the last
\* one being +Inf.
NewHistogram(bounds) == [sum |-> 0, buckets |-> [i \in 1..Len(bounds) + 1 |-> 0]]

BucketOf(bounds, amount) ==
    IF \E i \in 1..Len(bounds) : amount <= bounds[i]
    THEN CHOOSE i \in 1..Len(bounds) :
            /\ amount <= bounds[i]
            /\ \A j \in 1..(i - 1) : amount > bounds[j]
    ELSE Len(bounds) + 1

\* Histogram.labels(l).observe(amount)
Observe(histogram, bounds, l, amount) ==
    LET child == IF l \in DOMAIN histogram THEN histogram[l] ELSE NewHistogram(bounds)
        after == [sum |-> child.sum + amount,
                  buckets |-> [child.buckets EXCEPT ![BucketOf(bounds, amount)] = @ + 1]]
    IN  IF l \in DOMAIN histogram
        THEN [histogram EXCEPT ![l] = after]
        ELSE histogram @@ (l :> after)

RECURSIVE SumTo(_, _)
SumTo(f, n) == IF n = 0 THEN 0 ELSE f[n] + SumTo(f, n - 1)

\* The _count sample of a child: the cumulative +Inf bucket.
HistCount(child) == SumTo(child.buckets, Len(child.buckets))

\* Bucket upper bounds in units of 5 ms.
REQUEST_LATENCY_BUCKETS == <<20, 60, 100, 200, 600, 1000>>
DEFAULT_BUCKETS == <<1, 2, 5, 10, 15, 20, 50, 100, 150, 200, 500, 1000, 1500, 2000>>

-----------------------------------------------------------------------------
(* The query hooks.                                                        *)

select == <<"s","e","l","e","c","t">>
insert == <<"i","n","s","e","r","t">>
update == <<"u","p","d","a","t","e">>
delete == <<"d","e","l","e","t","e">>

MeteredOperations == {select, insert, update, delete}

\* A variant that keeps the start time in one place for all executions.
before_cursor_execute_shared(contexts, c, t) ==
    [d \in DOMAIN contexts |-> [contexts[d] EXCEPT !._query_start_time = t]]

\* context._query_start_time = time.time()
before_cursor_execute(contexts, c, t) ==
    [contexts EXCEPT ![c]._query_start_time = t]

\* A variant that compares the token as written.
OperationAsWritten(statement) == split(strip(statement))[1]

\* op = statement.strip().split()[0].lower()
Operation(statement) == lower(split(strip(statement))[1])

\* duration = time.time() - context._query_start_time
QueryDuration(contexts, c, t) == t - contexts[c]._query_start_time

\* The rest of after_cursor_execute on m = [total, duration], the two
\* database metrics.
after_cursor_execute(m, statement, duration) ==
    LET op == Operation(statement)
    IN  IF op \in MeteredOperations
        THEN [total |-> Inc(m.total, op),
              duration |-> Observe(m.duration, DEFAULT_BUCKETS, op, duration)]
        ELSE m

-----------------------------------------------------------------------------
(* The statement layer: every cursor execution of every Engine fires       *)
(* before_cursor_execute, and after_cursor_execute once the DBAPI call has *)
(* returned.  When the DBAPI call raises, SQLAlchemy dispatches            *)
(* handle_error instead and after_cursor_execute is not called.            *)

\* Statement texts with the operation each one is, by construction:
\* leading whitespace, a keyword in some letter case, the rest.
Statements == {
    [text |-> <<"S","E","L","E","C","T"," ","1">>,               kind |-> "select"],
    [text |-> <<"s","e","l","e","c","t","\t","1">>,              kind |-> "select"],
    [text |-> <<" "," ","S","e","L","e","C","t","\n","1","\n">>, kind |-> "select"],
    [text |-> <<"I","N","S","E","R","T"," ","I","N","T","O">>,   kind |-> "insert"],
    [text |-> <<"\n","U","p","d","a","t","e"," ","t"," ">>,      kind |-> "update"],
    [text |-> <<"d","e","l","e","t","e">>,                       kind |-> "delete"],
    [text |-> <<"C","R","E","A","T","E"," ","T","A","B","L","E">>, kind |-> "other"],
    [text |-> <<"S","E","L","E","C","T","*","F","R","O","M"," ","t">>, kind |-> "other"] }

MeteredKinds == {"select", "insert", "update", "delete"}

\* The label value of a metered kind.
OperationOf(kind) ==
    CASE kind = "select" -> select
      [] kind = "insert" -> insert
      [] kind = "update" -> update
      [] kind = "delete" -> delete

\* The cursor calls an Engine can make: execute for any statement,
\* executemany for the insert.
Executions ==
    {[statement |-> s, executemany |-> FALSE] : s \in Statements}
    \cup {[statement |-> s, executemany |-> TRUE] : s \in {t \in Statements : t.kind = "insert"}}

IdleContext ==
    [pc |-> "idle", statement |-> <<>>, executemany |-> FALSE, _query_start_time |-> 0]

DbMetrics == [total |-> DB_QUERIES_TOTAL, duration |-> DB_QUERY_DURATION]

NoExecution ==
    [valid |-> FALSE, ok |-> FALSE, kind |-> "other", executemany |-> FALSE,
     began |-> 0, ended |-> 0, overlapped |-> FALSE]

HttpUnchanged ==
    UNCHANGED <<IN_PROGRESS, REQUEST_COUNT, REQUEST_LATENCY, DB_POOL_CHECKED_OUT,
                DB_POOL_IDLE, DB_POOL_WAITERS, pool, database, user_data, id_seq, req>>

Executing(c) == ctx[c].pc = "executing"

\* Connection._execute_context up to the DBAPI call: a new execution context,
\* and the before_cursor_execute hook on it.  An executemany batch is one
\* cursor call: one context, one pair of hooks.  (Contexts are taken lowest
\* free slot first: which slot holds a context means nothing.)
ExecuteBegin(c, e) ==
    /\ ~Executing(c)
    /\ \A d \in Contexts : d < c => Executing(d)
    /\ h.statements < MaxStatements
    /\ ctx' = before_cursor_execute(
                 [ctx EXCEPT ![c] = [IdleContext EXCEPT !.pc = "executing",
                                                        !.statement = e.statement.text,
                                                        !.executemany = e.executemany]],
                 c, now)
    /\ h' = [h EXCEPT !.statements = @ + 1,
                      !.kindOf[c] = e.statement.kind,
                      !.beganAt[c] = now,
                      !.overlap = [d \in Contexts |->
                                     IF d = c THEN \E x \in Contexts : Executing(x)
                                     ELSE IF Executing(d) THEN TRUE ELSE @[d]]]
    /\ UNCHANGED <<now, DB_QUERIES_TOTAL, DB_QUERY_DURATION>>
    /\ HttpUnchanged

Ended(c, ok) ==
    [h EXCEPT !.exec = [valid |-> TRUE, ok |-> ok, kind |-> h.kindOf[c],
                        executemany |-> ctx[c].executemany,
                        began |-> h.beganAt[c], ended |-> now,
                        overlapped |-> h.overlap[c]],
              !.ended[h.kindOf[c]] = @ + 1]

\* The DBAPI call returned: after_cursor_execute, and the context is dropped.
ExecuteOk(c) ==
    /\ Executing(c)
    /\ LET m == after_cursor_execute(DbMetrics, ctx[c].statement,
                                     QueryDuration(ctx, c, now))
       IN  /\ DB_QUERIES_TOTAL' = m.total
           /\ DB_QUERY_DURATION' = m.duration
    /\ h' = Ended(c, TRUE)
    /\ ctx' = [ctx EXCEPT ![c] = IdleContext]
    /\ UNCHANGED now
    /\ HttpUnchanged

\* The DBAPI call raised: no after_cursor_execute.
ExecuteFail(c) ==
    /\ Executing(c)
    /\ h' = Ended(c, FALSE)
    /\ ctx' = [ctx EXCEPT ![c] = IdleContext]
    /\ UNCHANGED <<now, DB_QUERIES_TOTAL, DB_QUERY_DURATION>>
    /\ HttpUnchanged

\* time.time() advances.
Tick ==
    /\ now < MaxTicks * TickStep
    /\ now' = now + TickStep
    /\ UNCHANGED <<IN_PROGRESS, REQUEST_COUNT, REQUEST_LATENCY, DB_QUERIES_TOTAL,
                   DB_QUERY_DURATION, DB_POOL_CHECKED_OUT, DB_POOL_IDLE,
                   DB_POOL_WAITERS, pool, database, user_data, id_seq, req, ctx, h>>


-----------------------------------------------------------------------------
(* The user_data table and crud.py.                                        *)

\* Python's None, for the optional message.
None == "None"

\* String(100): the length of the name column.
NameLength == 100

Alice == [name |-> "Alice", email |-> "a@x.com", message |-> None]
Bob == [name |-> "Bob", email |-> "b@x.com", message |-> "hello"]
\* A payload schemas.UserDataCreate accepts and the name column does not:
\* 101 characters.
Long101 ==
    [name |-> "aaaaaaaaaaaaaaaaaaaaaaaaaaaaaaaaaaaaaaaaaaaaaaaaaaaaaaaaaaaaaaaaaaaaaaaaaaaaaaaaaaaaaaaaaaaaaaaaaaaaa",
     email |-> "a@x.com", message |-> None]
NoBody == [name |-> "", email |-> "", message |-> None]

NoItem == [id |-> 0, name |-> "", email |-> "", message |-> None, created_at |-> 0]

\* What the ORM sends for each operation (the leading part of the text).
SQL_INSERT == <<"I","N","S","E","R","T"," ","I","N","T","O"," ","u","s","e","r","_","d","a","t","a">>
SQL_SELECT == <<"S","E","L","E","C","T"," ","u","s","e","r","_","d","a","t","a",".","i","d">>
SQL_UPDATE == <<"U","P","D","A","T","E"," ","u","s","e","r","_","d","a","t","a">>
SQL_DELETE == <<"D","E","L","E","T","E"," ","F","R","O","M"," ","u","s","e","r","_","d","a","t","a">>
SQL_SELECT_1 == <<"S","E","L","E","C","T"," ","1">>

Max(S) == CHOOSE x \in S : \A y \in S : y <= x

\* A variant that numbers a new row one above the highest id in the table.
NextIdAboveHighest(table, seq) ==
    IF table = {} THEN 1 ELSE Max({row.id : row \in table}) + 1

\* id = Column(Integer, primary_key=True): the column's sequence gives the
\* next value and never gives a value again.
NextId(table, seq) == seq + 1

\* db.query(UserData).filter(UserData.id == item_id).first()
First(table, item_id) ==
    IF \E row \in table : row.id = item_id
    THEN CHOOSE row \in table : row.id = item_id
    ELSE NoItem

\* The orders ORDER BY created_at DESC can give: rows with equal timestamps
\* come in any order.
Descending(table) ==
    {s \in [1..Cardinality(table) -> table] :
        /\ \A i, j \in 1..Cardinality(table) : i # j => s[i] # s[j]
        /\ \A i, j \in 1..Cardinality(table) : i < j => s[i].created_at >= s[j].created_at}

Min2(a, b) == IF a <= b THEN a ELSE b

\* get_user_data: .offset(skip).limit(limit).all() of one such order.
get_user_data(table, skip, limit) ==
    {SubSeq(s, skip + 1, Min2(Len(s), skip + limit)) : s \in Descending(table)}

\* create_user_data: INSERT (the flush of db.commit()), then the SELECT of
\* db.refresh(item).  A name longer than the column makes the INSERT raise.
create_user_data(table, seq, data, t) ==
    IF Len(data.name) > NameLength
    THEN [raised |-> TRUE, table |-> table, item |-> NoItem, executed |-> <<>>]
    ELSE LET item == [id |-> NextId(table, seq), name |-> data.name,
                      email |-> data.email, message |-> data.message,
                      created_at |-> t]
         IN  [raised |-> FALSE, table |-> table \cup {item}, item |-> item,
              executed |-> <<SQL_INSERT, SQL_SELECT>>]

Updated(item, data) ==
    [item EXCEPT !.name = data.name, !.email = data.email, !.message = data.message]

\* A variant that stores the payload under the id when no row has it.
update_or_insert(table, item_id, data) ==
    LET item == Updated([NoItem EXCEPT !.id = item_id], data)
    IN  IF \E row \in table : row.id = item_id
        THEN [found |-> TRUE, raised |-> FALSE,
              table |-> (table \ {First(table, item_id)})
                           \cup {Updated(First(table, item_id), data)},
              item |-> Updated(First(table, item_id), data),
              executed |-> <<SQL_SELECT, SQL_UPDATE, SQL_SELECT>>]
        ELSE [found |-> TRUE, raised |-> FALSE, table |-> table \cup {item},
              item |-> item, executed |-> <<SQL_SELECT, SQL_INSERT, SQL_SELECT>>]

\* update_user_data: SELECT; None when there is no such row; else the UPDATE
\* of the changed columns (none is sent when nothing changed) and the SELECT of
\* db.refresh(item).
update_user_data(table, item_id, data) ==
    LET item == First(table, item_id)
    IN  IF item = NoItem
        THEN [found |-> FALSE, raised |-> FALSE, table |-> table, item |-> NoItem,
              executed |-> <<SQL_SELECT>>]
        ELSE IF Len(data.name) > NameLength
        THEN [found |-> TRUE, raised |-> TRUE, table |-> table, item |-> NoItem,
              executed |-> <<SQL_SELECT>>]
        ELSE [found |-> TRUE, raised |-> FALSE,
              table |-> (table \ {item}) \cup {Updated(item, data)},
              item |-> Updated(item, data),
              executed |-> IF Updated(item, data) = item
                           THEN <<SQL_SELECT, SQL_SELECT>>
                           ELSE <<SQL_SELECT, SQL_UPDATE, SQL_SELECT>>]

\* delete_user_data: SELECT; None when there is no such row; else DELETE.
delete_user_data(table, item_id) ==
    LET item == First(table, item_id)
    IN  IF item = NoItem
        THEN [found |-> FALSE, table |-> table, item |-> NoItem,
              executed |-> <<SQL_SELECT>>]
        ELSE [found |-> TRUE, table |-> table \ {item}, item |-> item,
              executed |-> <<SQL_SELECT, SQL_DELETE>>]

\* The hooks of the statements a handler ran to the end, in order; each has
\* an execution context of its own.
RECURSIVE RunHooks(_, _, _)
RunHooks(m, statements, t) ==
    IF statements = <<>> THEN m
    ELSE LET context == before_cursor_execute(<<IdleContext>>, 1, t)
         IN  RunHooks(after_cursor_execute(m, Head(statements),
                                           QueryDuration(context, 1, t)),
                      Tail(statements), t)

-----------------------------------------------------------------------------
(* engine.pool.status() and the regular expression of metrics().  A text   *)
(* is a sequence of tokens: a fragment of fixed wording, a run of digits,  *)
(* or a line break.  The wordings below are cut so that every place where  *)
(* a fragment the expression looks for could start is a token of its own.  *)

Lit(s) == [k |-> "lit", s |-> s, n |-> 0]
Num(n) == [k |-> "num", s |-> "", n |-> n]
LineBreak == [k |-> "nl", s |-> "", n |-> 0]

\* %d of an integer: a minus sign is not a digit.
Decimal(n) == IF n < 0 THEN <<Lit("-"), Num(0 - n)>> ELSE <<Num(n)>>

\* How the pool words its status.  "QueuePool" (with its default size of
\* 5) and "NullPool" are SQLAlchemy's; "InUseFreeWaiting" is the wording the expression of metrics()
\* is written for, "InUseFreeWaitingLines" the same on three lines.
Layouts == {"QueuePool", "NullPool", "InUseFreeWaiting", "InUseFreeWaitingLines"}

pool_status(p) ==
    CASE p.layout = "QueuePool" ->
            <<Lit("Pool size: "), Num(5)>>
            \o <<Lit("  Connections in pool: "), Num(p.idle)>>
            \o <<Lit(" Current Overflow: ")>> \o Decimal(p.in_use + p.idle - 5)
            \o <<Lit(" Current Checked out connections: "), Num(p.in_use)>>
      [] p.layout = "NullPool" -> <<Lit("NullPool")>>
      [] p.layout = "InUseFreeWaiting" ->
            <<Lit("Connections in use: "), Num(p.in_use), Lit(", "),
              Lit("Free connections: "), Num(p.idle), Lit(", "),
              Lit("Waiting connections: "), Num(p.waiting)>>
      [] p.layout = "InUseFreeWaitingLines" ->
            <<Lit("Connections in use: "), Num(p.in_use), LineBreak,
              Lit("Free connections: "), Num(p.idle), LineBreak,
              Lit("Waiting connections: "), Num(p.waiting)>>

\* Position i of text holds the fragment and a run of digits follows it.
Field(text, i, wording) ==
    /\ i \in 1..(Len(text) - 1)
    /\ text[i] = Lit(wording)
    /\ text[i + 1].k = "num"

\* `.*` between positions a and b: any tokens but a line break.
SameLine(text, a, b) == \A x \in a..b : text[x].k # "nl"

NoMatch == [found |-> FALSE, groups |-> <<0, 0, 0>>]

\* re.search(r"Connections in use: (\d+).*Free connections: (\d+).*Waiting
\* connections: (\d+)", status): the leftmost start, each `.*` as long as it
\* can be.
re_search(text) ==
    LET Matches == {m \in (1..Len(text)) \X (1..Len(text)) \X (1..Len(text)) :
                      /\ Field(text, m[1], "Connections in use: ")
                      /\ Field(text, m[2], "Free connections: ")
                      /\ Field(text, m[3], "Waiting connections: ")
                      /\ m[1] + 1 < m[2] /\ m[2] + 1 < m[3]
                      /\ SameLine(text, m[1], m[3])}
        Better(a, b) ==
            \/ a[1] < b[1]
            \/ a[1] = b[1] /\ a[2] > b[2]
            \/ a[1] = b[1] /\ a[2] = b[2] /\ a[3] >= b[3]
    IN  IF Matches = {} THEN NoMatch
        ELSE LET m == CHOOSE a \in Matches : \A b \in Matches : Better(a, b)
             IN  [found |-> TRUE,
                  groups |-> <<text[m[1] + 1].n, text[m[2] + 1].n, text[m[3] + 1].n>>]

\* A variant of the gauge update that clears the gauges when nothing matched.
pool_gauges_or_zero(match, gauges) ==
    IF match.found THEN match.groups ELSE <<0, 0, 0>>

\* if match: DB_POOL_CHECKED_OUT.set(in_use); DB_POOL_IDLE.set(free);
\* DB_POOL_WAITERS.set(waiting).  gauges is the three gauges in that order.
pool_gauges(match, gauges) ==
    IF match.found THEN match.groups ELSE gauges

-----------------------------------------------------------------------------
(* generate_latest(): one sample <<name, labels, value>> per series.  A    *)
(* histogram child gives its cumulative buckets (the label le is the       *)
(* bucket's position), its _count and its _sum.                            *)

\* A variant that leaves the last label out of a series' label set.
CounterSamplesShortLabels(name, counter) ==
    {<<name, <<SubSeq(l, 1, Len(l) - 1)>>, counter[l]>> : l \in DOMAIN counter}

CounterSamples(name, counter) ==
    {<<name, <<l>>, counter[l]>> : l \in DOMAIN counter}

HistogramSamples(name, histogram) ==
    UNION {
        {<<name \o "_bucket", <<l, i>>, SumTo(histogram[l].buckets, i)>> :
            i \in 1..Len(histogram[l].buckets)}
        \cup {<<name \o "_count", <<l>>, HistCount(histogram[l])>>,
              <<name \o "_sum", <<l>>, histogram[l].sum>>}
        : l \in DOMAIN histogram}

generate_latest(requests, latency, in_progress, queries, durations, gauges) ==
    CounterSamples("http_requests_total", requests)
    \cup HistogramSamples("http_request_duration_seconds", latency)
    \cup {<<"inprogress_requests", <<>>, in_progress>>}
    \cup CounterSamples("db_queries_total", queries)
    \cup HistogramSamples("db_query_duration_seconds", durations)
    \cup {<<"db_pool_checked_out_connections", <<>>, gauges[1]>>,
          <<"db_pool_idle_connections", <<>>, gauges[2]>>,
          <<"db_pool_waiters", <<>>, gauges[3]>>}

-----------------------------------------------------------------------------
(* The HTTP layer.  A request is [method, path, body, skip, limit]; the    *)
(* framework has routed and validated it before the handler runs.          *)

ItemPaths == <<"/data/1", "/data/2", "/data/3", "/data/4">>

\* item_id: int, from the path.
item_id(path) == CHOOSE i \in 1..Len(ItemPaths) : ItemPaths[i] = path

IsItemPath(path) == \E i \in 1..Len(ItemPaths) : ItemPaths[i] = path

\* The route decorators.
Route(q) ==
    CASE q.method = "POST" /\ q.path = "/data" -> "create_data"
      [] q.method = "GET" /\ q.path = "/data" -> "read_data"
      [] q.method = "PUT" /\ IsItemPath(q.path) -> "update_data"
      [] q.method = "DELETE" /\ IsItemPath(q.path) -> "delete_data"
      [] q.method = "GET" /\ q.path = "/metrics" -> "metrics"
      [] q.method = "GET" /\ q.path = "/health" -> "health_check"
      [] OTHER -> "none"

Request(method, path, body, skip, limit) ==
    [method |-> method, path |-> path, body |-> body, skip |-> skip, limit |-> limit]

IdleTask ==
    [pc |-> "idle", method |-> "", path |-> "", body |-> NoBody, skip |-> 0,
     limit |-> 0, start |-> 0, status |-> 0]

InFlight == {r \in Tasks : req[r].pc # "idle"}

Gauges == <<DB_POOL_CHECKED_OUT, DB_POOL_IDLE, DB_POOL_WAITERS>>

\* History: a step of a request other than a scrape.
Touch(hh, q) ==
    IF Route(q) = "metrics" THEN hh ELSE [hh EXCEPT !.since.other = TRUE]

StatementUnchanged == UNCHANGED ctx

\* metrics_middleware, up to `await call_next(request)`.  (Tasks are taken
\* lowest free slot first: which slot holds a request means nothing.)
Enter(r, q) ==
    /\ req[r].pc = "idle"
    /\ \A x \in Tasks : x < r => req[x].pc # "idle"
    /\ IN_PROGRESS' = IN_PROGRESS + 1
    /\ req' = [req EXCEPT ![r] = [pc |-> "call_next", method |-> q.method,
                                  path |-> q.path, body |-> q.body,
                                  skip |-> q.skip, limit |-> q.limit,
                                  start |-> now, status |-> 0]]
    /\ h' = Touch([h EXCEPT !.entered = @ + 1], q)
    /\ UNCHANGED <<now, REQUEST_COUNT, REQUEST_LATENCY, DB_QUERIES_TOTAL,
                   DB_QUERY_DURATION, DB_POOL_CHECKED_OUT, DB_POOL_IDLE,
                   DB_POOL_WAITERS, pool, database, user_data, id_seq>>
    /\ StatementUnchanged

\* `await call_next(request)` raises CancelledError: the host cancelled the
\* request.  metrics_middleware is left at the await.
Cancel(r) ==
    /\ req[r].pc = "call_next"
    /\ req' = [req EXCEPT ![r] = IdleTask]
    /\ h' = Touch([h EXCEPT !.aborted = @ + 1], req[r])
    /\ UNCHANGED <<now, IN_PROGRESS, REQUEST_COUNT, REQUEST_LATENCY, DB_QUERIES_TOTAL,
                   DB_QUERY_DURATION, DB_POOL_CHECKED_OUT, DB_POOL_IDLE,
                   DB_POOL_WAITERS, pool, database, user_data, id_seq>>
    /\ StatementUnchanged

\* metrics_middleware after call_next returned a response.  The lines hold
\* no await: no other task runs between them.
Exit(r) ==
    /\ req[r].pc = "responded"
    /\ LET latency == now - req[r].start
           labels == <<req[r].method, req[r].path, req[r].status>>
       IN  /\ REQUEST_COUNT' = Inc(REQUEST_COUNT, labels)
           /\ REQUEST_LATENCY' =
                 Observe(REQUEST_LATENCY, REQUEST_LATENCY_BUCKETS, labels, latency)
           /\ h' = Touch([h EXCEPT
                     !.finished = Append(@, [labels |-> labels, latency |-> latency,
                                             together |-> InFlight # {r}]),
                     !.since.done = IF Route(req[r]) = "metrics" THEN @ + 1 ELSE @],
                         req[r])
    /\ IN_PROGRESS' = IN_PROGRESS - 1
    /\ req' = [req EXCEPT ![r] = IdleTask]
    /\ UNCHANGED <<now, DB_QUERIES_TOTAL, DB_QUERY_DURATION, DB_POOL_CHECKED_OUT,
                   DB_POOL_IDLE, DB_POOL_WAITERS, pool, database, user_data, id_seq>>
    /\ StatementUnchanged

\* How call_next ends for the middleware: an exception the handler did not
\* turn into a response leaves metrics_middleware; a response is kept for
\* the lines after the await.  The statements the handler ran to the end
\* fired their hooks.
Return(r, raised, status, executed) ==
    /\ req' = IF raised THEN [req EXCEPT ![r] = IdleTask]
              ELSE [req EXCEPT ![r].pc = "responded", ![r].status = status]
    /\ LET m == RunHooks(DbMetrics, executed, now)
       IN  /\ DB_QUERIES_TOTAL' = m.total
           /\ DB_QUERY_DURATION' = m.duration
    /\ UNCHANGED <<now, IN_PROGRESS, REQUEST_COUNT, REQUEST_LATENCY, database>>
    /\ StatementUnchanged

Called(r, handler) == req[r].pc = "call_next" /\ Route(req[r]) = handler

\* History of a handler's step.
Handled(hh, r, raised) ==
    Touch([hh EXCEPT !.aborted = IF raised THEN @ + 1 ELSE @], req[r])

PoolUnchanged == UNCHANGED <<DB_POOL_CHECKED_OUT, DB_POOL_IDLE, DB_POOL_WAITERS, pool>>

\* POST /data.  With the database unreachable the first statement raises
\* before a cursor exists.  Whether a failed INSERT has taken a value of the
\* sequence is the database's business.
create_data(r) ==
    /\ Called(r, "create_data")
    /\ LET out == create_user_data(user_data, id_seq, req[r].body, now)
           down == database = "unreachable"
           raised == down \/ out.raised
       IN  /\ Return(r, raised, 201, IF down THEN <<>> ELSE out.executed)
           /\ user_data' = IF down THEN user_data ELSE out.table
           /\ id_seq' \in IF down THEN {id_seq}
                          ELSE IF out.raised THEN {id_seq, id_seq + 1}
                          ELSE {id_seq + 1}
           /\ h' = Handled(
                     [h EXCEPT !.created = [valid |-> TRUE, input |-> req[r].body,
                                            ok |-> ~raised,
                                            item |-> IF raised THEN NoItem ELSE out.item,
                                            issued |-> h.issued],
                               !.issued = IF raised THEN @ ELSE @ \cup {out.item.id},
                               !.lastCrud = IF raised THEN "other" ELSE "create"],
                     r, raised)
    /\ PoolUnchanged

\* GET /data
read_data(r) ==
    /\ Called(r, "read_data")
    /\ LET down == database = "unreachable"
       IN  /\ Return(r, down, 200, IF down THEN <<>> ELSE <<SQL_SELECT>>)
           /\ \E rows \in get_user_data(user_data, req[r].skip, req[r].limit) :
                 h' = Handled(
                        IF down THEN h
                        ELSE [h EXCEPT !.read = [valid |-> TRUE, skip |-> req[r].skip,
                                                 limit |-> req[r].limit, rows |-> rows,
                                                 size |-> Cardinality(user_data),
                                                 follows |-> h.lastCrud = "create",
                                                 created |-> h.created]],
                        r, down)
    /\ UNCHANGED <<user_data, id_seq>>
    /\ PoolUnchanged

\* PUT /data/{item_id}: HTTPException(404) becomes the 404 response inside
\* call_next.
update_data(r) ==
    /\ Called(r, "update_data")
    /\ LET out == update_user_data(user_data, item_id(req[r].path), req[r].body)
           down == database = "unreachable"
           raised == down \/ out.raised
       IN  /\ Return(r, raised, IF out.found THEN 200 ELSE 404,
                     IF down THEN <<>> ELSE out.executed)
           /\ user_data' = IF down THEN user_data ELSE out.table
           /\ h' = Handled(
                     [h EXCEPT !.put = [valid |-> TRUE, id |-> item_id(req[r].path),
                                        status |-> IF raised THEN 500
                                                   ELSE IF out.found THEN 200 ELSE 404,
                                        before |-> user_data, after |-> user_data'],
                               !.lastCrud = "other"],
                     r, raised)
    /\ UNCHANGED id_seq
    /\ PoolUnchanged

\* DELETE /data/{item_id}
delete_data(r) ==
    /\ Called(r, "delete_data")
    /\ LET out == delete_user_data(user_data, item_id(req[r].path))
           down == database = "unreachable"
       IN  /\ Return(r, down, IF out.found THEN 200 ELSE 404,
                     IF down THEN <<>> ELSE out.executed)
           /\ user_data' = IF down THEN user_data ELSE out.table
           /\ h' = Handled(
                     [h EXCEPT !.del = [valid |-> TRUE, id |-> item_id(req[r].path),
                                        status |-> IF down THEN 500
                                                   ELSE IF out.found THEN 200 ELSE 404,
                                        before |-> user_data, after |-> user_data',
                                        again |-> item_id(req[r].path) \in h.deleted],
                               !.deleted = IF ~down /\ out.found
                                           THEN @ \cup {item_id(req[r].path)} ELSE @,
                               !.lastCrud = "other"],
                     r, down)
    /\ UNCHANGED id_seq
    /\ PoolUnchanged

\* GET /metrics
metrics(r) ==
    /\ Called(r, "metrics")
    /\ UNCHANGED <<pool, user_data, id_seq>>
    /\ LET status == pool_status(pool)
           match == re_search(status)
           gauges == pool_gauges(match, Gauges)
           data == generate_latest(REQUEST_COUNT, REQUEST_LATENCY, IN_PROGRESS,
                                   DB_QUERIES_TOTAL, DB_QUERY_DURATION, gauges)
       IN  /\ DB_POOL_CHECKED_OUT' = gauges[1]
           /\ DB_POOL_IDLE' = gauges[2]
           /\ DB_POOL_WAITERS' = gauges[3]
           /\ h' = [h EXCEPT
                     !.scrape = [n |-> IF @.n < 2 THEN @.n + 1 ELSE 2,
                                 last |-> data, prev |-> @.last,
                                 other |-> h.since.other, done |-> h.since.done,
                                 seen |-> {h.finished[i].labels : i \in 1..Len(h.finished)},
                                 pool |-> pool, poolAfter |-> pool',
                                 before |-> Gauges],
                     !.since = [other |-> FALSE, done |-> 0]]
    /\ Return(r, FALSE, 200, <<>>)

\* GET /health: the handler turns a failure of SELECT 1 into the 500 response.
health_check(r) ==
    /\ Called(r, "health_check")
    /\ Return(r, FALSE, IF database = "reachable" THEN 200 ELSE 500,
              IF database = "reachable" THEN <<SQL_SELECT_1>> ELSE <<>>)
    /\ h' = Handled(h, r, FALSE)
    /\ UNCHANGED <<user_data, id_seq>>
    /\ PoolUnchanged

\* The database goes away or comes back.
DatabaseOutage ==
    /\ database' = IF database = "reachable" THEN "unreachable" ELSE "reachable"
    /\ UNCHANGED <<now, IN_PROGRESS, REQUEST_COUNT, REQUEST_LATENCY, DB_QUERIES_TOTAL,
                   DB_QUERY_DURATION, DB_POOL_CHECKED_OUT, DB_POOL_IDLE,
                   DB_POOL_WAITERS, pool, user_data, id_seq, req, ctx, h>>

Occupancies == {<<0, 0, 0>>, <<2, 1, 3>>}

PoolStates ==
    {[layout |-> l, in_use |-> o[1], idle |-> o[2], waiting |-> o[3]] :
        l \in Layouts, o \in Occupancies}

\* The ORM and the driver, which own the pool, change its occupancy and with
\* it the text of its status.
PoolChange ==
    /\ pool' \in PoolStates \ {pool}
    /\ UNCHANGED <<now, IN_PROGRESS, REQUEST_COUNT, REQUEST_LATENCY, DB_QUERIES_TOTAL,
                   DB_QUERY_DURATION, DB_POOL_CHECKED_OUT, DB_POOL_IDLE,
                   DB_POOL_WAITERS, database, user_data, id_seq, req, ctx, h>>

-----------------------------------------------------------------------------
(* The state after the module is imported: the registry is empty, the      *)
(* table exists, no request and no statement is in flight.                 *)

NoScrape ==
    [n |-> 0, last |-> {}, prev |-> {}, other |-> FALSE, done |-> 0, seen |-> {},
     pool |-> [layout |-> "QueuePool", in_use |-> 0, idle |-> 0, waiting |-> 0],
     poolAfter |-> [layout |-> "QueuePool", in_use |-> 0, idle |-> 0, waiting |-> 0],
     before |-> <<0, 0, 0>>]

Init ==
    /\ now = 0
    /\ IN_PROGRESS = 0
    /\ REQUEST_COUNT = NoSeries
    /\ REQUEST_LATENCY = NoSeries
    /\ DB_QUERIES_TOTAL = NoSeries
    /\ DB_QUERY_DURATION = NoSeries
    /\ DB_POOL_CHECKED_OUT = 0
    /\ DB_POOL_IDLE = 0
    /\ DB_POOL_WAITERS = 0
    /\ pool = [layout |-> "QueuePool", in_use |-> 0, idle |-> 0, waiting |-> 0]
    /\ database = "reachable"
    /\ user_data = {}
    /\ id_seq = 0
    /\ req = [r \in Tasks |-> IdleTask]
    /\ ctx = [c \in Contexts |-> IdleContext]
    /\ h = [statements |-> 0,
            kindOf |-> [c \in Contexts |-> "other"],
            beganAt |-> [c \in Contexts |-> 0],
            overlap |-> [c \in Contexts |-> FALSE],
            ended |-> [k \in MeteredKinds \cup {"other"} |-> 0],
            exec |-> NoExecution,
            entered |-> 0, finished |-> <<>>, aborted |-> 0,
            since |-> [other |-> FALSE, done |-> 0],
            scrape |-> NoScrape,
            created |-> [valid |-> FALSE, input |-> NoBody, ok |-> FALSE, item |-> NoItem,
                        issued |-> {}],
            read |-> [valid |-> FALSE, skip |-> 0, limit |-> 0, rows |-> <<>>,
                      size |-> 0, follows |-> FALSE,
                      created |-> [valid |-> FALSE, input |-> NoBody, ok |-> FALSE,
                                   item |-> NoItem, issued |-> {}]],
            put |-> [valid |-> FALSE, id |-> 0, status |-> 0, before |-> {}, after |-> {}],
            del |-> [valid |-> FALSE, id |-> 0, status |-> 0, before |-> {}, after |-> {},
                     again |-> FALSE],
            issued |-> {}, deleted |-> {}, lastCrud |-> "none"]

-----------------------------------------------------------------------------
(* Specifications.                                                         *)

\* The statement layer: any Engine, any statement.
NextDb ==
    \/ \E c \in Contexts, e \in Executions : ExecuteBegin(c, e)
    \/ \E c \in Contexts : ExecuteOk(c)
    \/ \E c \in Contexts : ExecuteFail(c)
    \/ Tick

SpecDb == Init /\ [][NextDb]_vars

\* metrics_middleware around concurrent requests: handlers that answer,
\* answer 404 and raise, and requests the host cancels.
HttpRequests ==
    {Request("POST", "/data", b, 0, 0) : b \in {Alice, Long101}}
    \cup {Request("GET", "/data", NoBody, 0, 100), Request("PUT", "/data/1", Bob, 0, 0)}

NextHttp ==
    \/ \E r \in Tasks, q \in HttpRequests : h.entered < MaxRequests /\ Enter(r, q)
    \/ \E r \in Tasks : create_data(r)
    \/ \E r \in Tasks : read_data(r)
    \/ \E r \in Tasks : update_data(r)
    \/ \E r \in Tasks : Exit(r)
    \/ \E r \in Tasks : Cancel(r)
    \/ Tick

Spec == Init /\ [][NextHttp]_vars

\* The CRUD endpoints, one request after the other, the database reachable.
CrudRequests ==
    {Request("POST", "/data", b, 0, 0) : b \in {Alice, Long101}}
    \cup {Request("GET", "/data", NoBody, 0, 100), Request("GET", "/data", NoBody, 1, 1)}
    \cup {Request("PUT", "/data/1", Bob, 0, 0)}
    \cup {Request("DELETE", ItemPaths[i], NoBody, 0, 0) : i \in 1..2}

NextCrud ==
    \/ \E r \in Tasks, q \in CrudRequests :
          h.entered < MaxCrudRequests /\ InFlight = {} /\ Enter(r, q)
    \/ \E r \in Tasks : create_data(r)
    \/ \E r \in Tasks : read_data(r)
    \/ \E r \in Tasks : update_data(r)
    \/ \E r \in Tasks : delete_data(r)
    \/ \E r \in Tasks : Exit(r)
    \/ Tick

SpecCrud == Init /\ [][NextCrud]_vars

\* Scrapes, with health checks between them, the pool in use and the database
\* coming and going.
ScrapeRequests ==
    {Request("GET", "/metrics", NoBody, 0, 0), Request("GET", "/health", NoBody, 0, 0)}

NextScrape ==
    \/ \E r \in Tasks, q \in ScrapeRequests : h.entered < MaxRequests /\ Enter(r, q)
    \/ \E r \in Tasks : metrics(r)
    \/ \E r \in Tasks : health_check(r)
    \/ \E r \in Tasks : Exit(r)
    \/ DatabaseOutage
    \/ PoolChange

SpecScrape == Init /\ [][NextScrape]_vars

-----------------------------------------------------------------------------
(* Claims about the statement layer.                                       *)

Sum(histogram, l) == IF l \in DOMAIN histogram THEN histogram[l].sum ELSE 0
Count(histogram, l) == IF l \in DOMAIN histogram THEN HistCount(histogram[l]) ELSE 0

\* The step in which the execution on context c ends with the DBAPI call
\* having returned.
Completes(c) == Executing(c) /\ ctx'[c].pc = "idle" /\ h'.exec.ok

\* C4: a statement that completes is classified by its first
\* whitespace-delimited token, case-insensitively.  When that token is select,
\* insert, update or delete, the counter of that operation goes up by one, its
\* histogram takes one observation and no other series of db_queries_total or
\* db_query_duration_seconds changes; for any other token no series of the
\* two metrics changes.
C4_OnlyItsOperationChanges ==
    [][\A c \in Contexts : Completes(c) =>
        IF h.kindOf[c] \in MeteredKinds
        THEN LET op == OperationOf(h.kindOf[c])
             IN  /\ DOMAIN DB_QUERIES_TOTAL' = DOMAIN DB_QUERIES_TOTAL \cup {op}
                 /\ DOMAIN DB_QUERY_DURATION' = DOMAIN DB_QUERY_DURATION \cup {op}
                 /\ DB_QUERIES_TOTAL'[op] = Value(DB_QUERIES_TOTAL, op) + 1
                 /\ Count(DB_QUERY_DURATION', op) = Count(DB_QUERY_DURATION, op) + 1
                 /\ \A o \in DOMAIN DB_QUERIES_TOTAL \ {op} :
                       DB_QUERIES_TOTAL'[o] = DB_QUERIES_TOTAL[o]
                 /\ \A o \in DOMAIN DB_QUERY_DURATION \ {op} :
                       DB_QUERY_DURATION'[o] = DB_QUERY_DURATION[o]
        ELSE UNCHANGED <<DB_QUERIES_TOTAL, DB_QUERY_DURATION>>]_vars

\* A select has been counted, and then a statement with another leading
\* token completed and left only the select series behind.
C4_Witness ==
    /\ h.exec.valid /\ h.exec.ok /\ h.exec.kind = "other"
    /\ DOMAIN DB_QUERIES_TOTAL = {select}
    /\ DB_QUERIES_TOTAL[select] = 1
    /\ Count(DB_QUERY_DURATION, select) = 1

\* C9: every statement whose execution began and whose leading keyword is
\* select, insert, update or delete has, once its execution is over (returned
\* or raised), exactly one counter increment and one duration observation.
C9_EveryEndedStatementIsMetered ==
    \A k \in MeteredKinds :
        /\ Value(DB_QUERIES_TOTAL, OperationOf(k)) = h.ended[k]
        /\ Count(DB_QUERY_DURATION, OperationOf(k)) = h.ended[k]

\* C10: the duration observed for a statement is the time from that
\* statement's own before_cursor_execute to its after_cursor_execute, whatever
\* other statements began or ended in between.
C10_DurationFromOwnStart ==
    [][\A c \in Contexts : (Completes(c) /\ h.kindOf[c] \in MeteredKinds) =>
        Sum(DB_QUERY_DURATION', OperationOf(h.kindOf[c]))
            - Sum(DB_QUERY_DURATION, OperationOf(h.kindOf[c]))
          = now - h.beganAt[c]]_vars

\* A metered statement that took time completed while another statement,
\* begun at another time, was still executing.
C10_Witness ==
    /\ h.exec.valid /\ h.exec.ok /\ h.exec.kind \in MeteredKinds
    /\ h.exec.overlapped
    /\ h.exec.ended > h.exec.began
    /\ \E d \in Contexts : Executing(d) /\ h.beganAt[d] # h.exec.began

-----------------------------------------------------------------------------
(* Claims about metrics_middleware.                                        *)

\* The requests that went through the lines after the await under labels l.
Finished(l) == {i \in 1..Len(h.finished) : h.finished[i].labels = l}

RECURSIVE Total(_, _)
Total(f, S) ==
    IF S = {} THEN 0
    ELSE LET x == CHOOSE y \in S : TRUE IN f[x] + Total(f, S \ {x})

Latencies == [i \in 1..Len(h.finished) |-> h.finished[i].latency]

\* The requests that are over: they left the middleware with or without
\* its closing lines.
Over == Len(h.finished) + h.aborted

\* C1: on every exit path of a request the in-progress gauge is decremented
\* exactly once, so the gauge is the number of requests in flight, and with
\* none in flight it is back at its initial value 0.
C1_GaugeIsRequestsInFlight == IN_PROGRESS = Cardinality(InFlight)

\* C2: every request that is over has given exactly one increment of the
\* request counter and exactly one latency observation, whether its handler
\* succeeded or failed.
C2_EveryRequestRecordedOnce ==
    /\ Total(REQUEST_COUNT, DOMAIN REQUEST_COUNT) = Over
    /\ Total([l \in DOMAIN REQUEST_LATENCY |-> HistCount(REQUEST_LATENCY[l])],
             DOMAIN REQUEST_LATENCY) = Over

\* The bucket an amount belongs to: the first upper bound it does not
\* exceed, the last bucket when it exceeds them all.
InBucket(bounds, b, amount) ==
    /\ b <= Len(bounds) => amount <= bounds[b]
    /\ b > 1 => amount > bounds[b - 1]

\* C7: under every interleaving of the tasks, the value of a request
\* counter series is the number of requests recorded under its labels (none
\* is lost), and the histogram series of the same labels agrees with it:
\* its count is that number, its sum the sum of their latencies, each bucket
\* the number of them that fall in it.
C7_NoIncrementLost ==
    \A l \in DOMAIN REQUEST_COUNT \cup DOMAIN REQUEST_LATENCY
               \cup {h.finished[i].labels : i \in 1..Len(h.finished)} :
        /\ Value(REQUEST_COUNT, l) = Cardinality(Finished(l))
        /\ Count(REQUEST_LATENCY, l) = Cardinality(Finished(l))
        /\ Sum(REQUEST_LATENCY, l) = Total(Latencies, Finished(l))
        /\ l \in DOMAIN REQUEST_LATENCY =>
              \A b \in 1..Len(REQUEST_LATENCY_BUCKETS) + 1 :
                  REQUEST_LATENCY[l].buckets[b] =
                      Cardinality({i \in Finished(l) :
                          InBucket(REQUEST_LATENCY_BUCKETS, b, h.finished[i].latency)})

\* Two requests in flight together were recorded under the same labels.
C7_Witness ==
    \E l \in DOMAIN REQUEST_COUNT :
        /\ REQUEST_COUNT[l] >= 2
        /\ \E i \in Finished(l) : h.finished[i].together
        /\ Sum(REQUEST_LATENCY, l) > 0

-----------------------------------------------------------------------------
(* Claims about GET /metrics.                                              *)

Counters(data) == {x \in data : x[1] \in {"http_requests_total", "db_queries_total"}}

\* The series the middleware keeps for the scrape requests themselves.
IsOwnSeries(x) ==
    x[1] = "http_requests_total" /\ x[2] = << <<"GET", "/metrics", 200>> >>

OwnCount(data) ==
    IF \E x \in data : IsOwnSeries(x)
    THEN (CHOOSE x \in data : IsOwnSeries(x))[3]
    ELSE 0

Published(data, name) == (CHOOSE x \in data : x[1] = name)[3]

PublishedGauges(data) ==
    <<Published(data, "db_pool_checked_out_connections"),
      Published(data, "db_pool_idle_connections"),
      Published(data, "db_pool_waiters")>>

\* The status text gives the three counts the way the scrape reads them.
Parseable(p) == p.layout = "InUseFreeWaiting"

\* C8: a scrape whose pool status cannot be parsed publishes the pool gauges
\* with the values they had before it and still answers 200; a scrape whose
\* status can be parsed publishes the pool's in-use, idle and waiting counts;
\* the pool is as it was before the scrape.
C8_PoolGaugesFollowTheParse ==
    /\ h.scrape.n >= 1 =>
          /\ PublishedGauges(h.scrape.last) =
                IF Parseable(h.scrape.pool)
                THEN <<h.scrape.pool.in_use, h.scrape.pool.idle, h.scrape.pool.waiting>>
                ELSE h.scrape.before
          /\ h.scrape.poolAfter = h.scrape.pool
    /\ h.aborted = 0
    /\ \A l \in DOMAIN REQUEST_COUNT : l[2] = "/metrics" => l[3] = 200

\* A scrape that could not parse the status published the counts an earlier
\* scrape had set.
C8_Witness ==
    /\ h.scrape.n = 2
    /\ ~Parseable(h.scrape.pool)
    /\ h.scrape.before = <<2, 1, 3>>
    /\ PublishedGauges(h.scrape.last) = <<2, 1, 3>>
    /\ <<"GET", "/metrics", 200>> \in DOMAIN REQUEST_COUNT

-----------------------------------------------------------------------------
(* Claims about the CRUD endpoints.                                        *)

\* C5: PUT on an id no stored record has answers 404 and leaves the store
\* as it was; DELETE on an id an earlier DELETE removed answers 404 and leaves
\* the store as it was.
C5_AbsentIdIsNotFound ==
    /\ (h.put.valid /\ \A row \in h.put.before : row.id # h.put.id) =>
          (h.put.status = 404 /\ h.put.after = h.put.before)
    /\ (h.del.valid /\ h.del.again) =>
          (h.del.status = 404 /\ h.del.after = h.del.before)

\* The second DELETE of an id that a create had issued.
C5_Witness ==
    /\ h.del.valid /\ h.del.again /\ h.del.status = 404
    /\ h.del.id \in h.issued

SameFields(item, data) ==
    item.name = data.name /\ item.email = data.email /\ item.message = data.message

\* C6: a create whose payload fits the entity returns a record with the
\* payload's name, email and message and an id no earlier create was given,
\* deleted records included; a read that follows it, from the first row and
\* with room for every row, lists that record with the same fields.
C6_CreateReturnsInputUnderFreshId ==
    /\ (h.created.valid /\ Len(h.created.input.name) <= NameLength) =>
          /\ h.created.ok
          /\ SameFields(h.created.item, h.created.input)
          /\ h.created.item.id \notin h.created.issued
    /\ (h.read.valid /\ h.read.follows /\ h.read.skip = 0
            /\ h.read.limit >= h.read.size) =>
          \E i \in 1..Len(h.read.rows) :
              /\ h.read.rows[i].id = h.read.created.item.id
              /\ SameFields(h.read.rows[i], h.read.created.input)

\* A create after the record of an earlier create was deleted.
C6_Witness ==
    /\ h.created.valid /\ h.created.ok
    /\ h.created.issued \cap h.deleted # {}
    /\ h.created.item.id \notin h.created.issued

=============================================================================
